---- MODULE Spec2Model ----
(***************************************************************************)
(* Noughts and Crosses (game.py): one session of main(), its menu loop,    *)
(* the rounds played by play_game() and the leaderboard file.              *)
(*                                                                         *)
(* The program is sequential and blocks only on input(); every action      *)
(* below is the code that runs between two reads of input (or between a    *)
(* read and the draw of random.choice).                                    *)
(***************************************************************************)
EXTENDS Integers, Sequences, FiniteSets

VARIABLES
    board,        \* main's `board`: the 3x3 list of lists of one-character strings
    pc,           \* where the program waits: "menu", "player", "computer", "exit", "crashed"
    out,          \* the lines printed by the last step
    total_score,  \* main's `total_score`
    file,         \* leaderboard.txt on disk
    mark,         \* `mark` argument of the most recent check_for_win call
    won           \* result of the most recent check_for_win call

vars == <<board, pc, out, total_score, file, mark, won>>

(***************************************************************************)
(* Bounds of the model.                                                    *)
(***************************************************************************)
\* a round is started only while |total_score| < MaxScore
MaxScore == 1
\* a score is saved only while the stored value stays within -MaxStored..MaxStored
MaxStored == 2
\* the numbers typed at the move prompt range over -1..MaxInput
MaxInput == 10

(***************************************************************************)
(* Data.                                                                   *)
(***************************************************************************)
\* range(3)
range3 == 0..2

\* the three symbols a round writes
Symbols == {" ", "X", "O"}

\* main's initial board, lines 195-197
NumberedBoard ==
    [row \in range3 |->
        [col \in range3 |->
            CASE row = 0 /\ col = 0 -> "1"
              [] row = 0 /\ col = 1 -> "2"
              [] row = 0 /\ col = 2 -> "3"
              [] row = 1 /\ col = 0 -> "4"
              [] row = 1 /\ col = 1 -> "5"
              [] row = 1 /\ col = 2 -> "6"
              [] row = 2 /\ col = 0 -> "7"
              [] row = 2 /\ col = 1 -> "8"
              [] row = 2 /\ col = 2 -> "9"]]

\* what the player can type at "Enter the cell number": text for which int()
\* raises ValueError (num = FALSE), or the integer int() returns
MoveInputs ==
    {[num |-> FALSE, val |-> 0]}
        \cup {[num |-> TRUE, val |-> n] : n \in (0 - 1)..MaxInput}

\* what the player can type at "Enter your choice"
MenuInputs == {"1", "2", "3", "q", "Q", "x", ""}

\* what the player can type at "Enter your name"
Names == {"ann"}

\* a name an earlier session stored in leaderboard.txt
OtherName == "bob"

\* str.lower() on the menu inputs
lower(s) == IF s = "Q" THEN "q" ELSE s

\* leaderboard.txt: absent, not JSON ("invalid"), JSON that is no object
\* ("other"), or a JSON object of names and integer scores ("dict")
FileAbsent == [kind |-> "absent", data |-> <<>>]
FileInvalid == [kind |-> "invalid", data |-> <<>>]
FileOther == [kind |-> "other", data |-> <<>>]
FileDict(d) == [kind |-> "dict", data |-> d]

(***************************************************************************)
(* The functions of game.py.                                               *)
(***************************************************************************)

\* draw_board prints the grid; its lines are abstracted to one token
draw_board == <<"<board>">>

\* menu() prints the menu before it reads the choice
menu_text == <<"<menu>">>

\* initialise_board with range(2) for the columns: the last column is kept
initialise_board_short(b) ==
    [row \in DOMAIN b |->
        [col \in DOMAIN b[row] |->
            IF row \in range3 /\ col \in 0..1 THEN " " ELSE b[row][col]]]

\* initialise_board that clears nothing
initialise_board_noop(b) == b

\* initialise_board, lines 23-29
initialise_board(b) ==
    [row \in DOMAIN b |->
        [col \in DOMAIN b[row] |->
            IF row \in range3 /\ col \in range3 THEN " " ELSE b[row][col]]]

\* line 48 without the test: every cell counts as empty
cell_is_empty_always(b, row, col) == TRUE

\* line 48: the target cell is empty
cell_is_empty(b, row, col) == b[row][col] = " "

\* one iteration of get_player_move's loop on one input, lines 34-53:
\* accepted = TRUE is `return row, col`, otherwise msg is printed and the
\* loop reads again
get_player_move(b, inp) ==
    IF ~inp.num
    THEN [accepted |-> FALSE, row |-> 0, col |-> 0, msg |-> "Please enter a number."]
    ELSE IF inp.val < 1 \/ inp.val > 9
    THEN [accepted |-> FALSE, row |-> 0, col |-> 0,
          msg |-> "Please choose a number between 1 and 9."]
    ELSE LET row == (inp.val - 1) \div 3
             col == (inp.val - 1) % 3
         IN  IF cell_is_empty(b, row, col)
             THEN [accepted |-> TRUE, row |-> row, col |-> col, msg |-> ""]
             ELSE [accepted |-> FALSE, row |-> row, col |-> col,
                   msg |-> "That cell is already taken. Try again."]

\* board[col][row] = m: the indices swapped
place_swapped(b, row, col, m) == [b EXCEPT ![col][row] = m]

\* board[row][col] = m, lines 109 and 126
place(b, row, col, m) == [b EXCEPT ![row][col] = m]

\* the cells in the order the nested loops of lines 59-60 visit them
cells_in_order ==
    [i \in 1..9 |-> [row |-> (i - 1) \div 3, col |-> (i - 1) % 3]]

\* empty_cells collecting every cell the computer has not marked
empty_cells_not_own(b) ==
    SelectSeq(cells_in_order, LAMBDA c : b[c.row][c.col] # "O")

\* choose_computer_move's empty_cells, lines 58-62
empty_cells(b) ==
    SelectSeq(cells_in_order, LAMBDA c : b[c.row][c.col] = " ")

\* check_for_win with the second diagonal read as (0,2), (1,1), (2,2)
check_for_win_one_diagonal(b, m) ==
    \/ \E row \in range3 :
          b[row][0] = b[row][1] /\ b[row][1] = b[row][2] /\ b[row][2] = m
    \/ \E col \in range3 :
          b[0][col] = b[1][col] /\ b[1][col] = b[2][col] /\ b[2][col] = m
    \/ b[0][0] = b[1][1] /\ b[1][1] = b[2][2] /\ b[2][2] = m
    \/ b[0][2] = b[1][1] /\ b[1][1] = b[2][2] /\ b[2][2] = m

\* check_for_win, lines 69-87
check_for_win(b, m) ==
    \/ \E row \in range3 :
          b[row][0] = b[row][1] /\ b[row][1] = b[row][2] /\ b[row][2] = m
    \/ \E col \in range3 :
          b[0][col] = b[1][col] /\ b[1][col] = b[2][col] /\ b[2][col] = m
    \/ b[0][0] = b[1][1] /\ b[1][1] = b[2][2] /\ b[2][2] = m
    \/ b[0][2] = b[1][1] /\ b[1][1] = b[2][0] /\ b[2][0] = m

\* check_for_draw with the test inverted: any marked cell answers False
check_for_draw_inverted(b) ==
    ~ \E row \in range3 : \E col \in range3 : b[row][col] # " "

\* check_for_draw, lines 89-98
check_for_draw(b) ==
    ~ \E row \in range3 : \E col \in range3 : b[row][col] = " "

\* lines 112-120 with the draw check placed before the win check
after_player_move_draw_first(b) ==
    IF check_for_draw(b)
    THEN [returned |-> TRUE, value |-> 0, lines |-> <<"It's a draw!">>]
    ELSE IF check_for_win(b, "X")
    THEN [returned |-> TRUE, value |-> 1, lines |-> <<"You win!">>]
    ELSE [returned |-> FALSE, value |-> 0, lines |-> <<"Computer is thinking...">>]

\* play_game after the player's mark is on the board, lines 112-123:
\* returned = TRUE is `return value`
after_player_move(b) ==
    IF check_for_win(b, "X")
    THEN [returned |-> TRUE, value |-> 1, lines |-> <<"You win!">>]
    ELSE IF check_for_draw(b)
    THEN [returned |-> TRUE, value |-> 0, lines |-> <<"It's a draw!">>]
    ELSE [returned |-> FALSE, value |-> 0, lines |-> <<"Computer is thinking...">>]

\* lines 130-138 returning 1 when the computer wins
after_computer_move_wrong_sign(b) ==
    IF check_for_win(b, "O")
    THEN [returned |-> TRUE, value |-> 1, lines |-> <<"Computer wins!">>]
    ELSE IF check_for_draw(b)
    THEN [returned |-> TRUE, value |-> 0, lines |-> <<"It's a draw!">>]
    ELSE [returned |-> FALSE, value |-> 0, lines |-> <<>>]

\* lines 130-138 without the win check
after_computer_move_no_win_check(b) ==
    IF check_for_draw(b)
    THEN [returned |-> TRUE, value |-> 0, lines |-> <<"It's a draw!">>]
    ELSE [returned |-> FALSE, value |-> 0, lines |-> <<>>]

\* play_game after the computer's mark is on the board, lines 130-138
after_computer_move(b) ==
    IF check_for_win(b, "O")
    THEN [returned |-> TRUE, value |-> 0 - 1, lines |-> <<"Computer wins!">>]
    ELSE IF check_for_draw(b)
    THEN [returned |-> TRUE, value |-> 0, lines |-> <<"It's a draw!">>]
    ELSE [returned |-> FALSE, value |-> 0, lines |-> <<>>]

\* load_scores, lines 154-163: the object json.load returns
load_scores(f) ==
    IF f.kind = "absent" THEN FileDict(<<>>)
    ELSE IF f.kind = "invalid" THEN FileDict(<<>>)
    ELSE f

\* leaders.get(name, 0), line 173
get(d, name) == IF name \in DOMAIN d THEN d[name] ELSE 0

\* line 173 on a fresh dict: the other names' entries are lost
add_score_only_name(d, name, s) ==
    [n \in {name} |-> get(d, name) + s]

\* leaders[name] = leaders.get(name, 0) + score, line 173
add_score(d, name, s) ==
    [n \in DOMAIN d \cup {name} |-> IF n = name THEN get(d, name) + s ELSE d[n]]

(***************************************************************************)
(* The session.                                                            *)
(***************************************************************************)

\* main, lines 193-203: the numbered board is shown and the menu is printed;
\* the session starts with no leaderboard.txt on disk
Init ==
    /\ board = NumberedBoard
    /\ pc = "menu"
    /\ out = <<"Welcome to the Noughts and Crosses Game!">> \o draw_board \o menu_text
    /\ total_score = 0
    /\ file = FileAbsent
    /\ mark = " "
    /\ won = FALSE

\* menu, lines 148-152: a choice that is none of 1, 2, 3, q is asked again
MenuInvalid(choice) ==
    /\ pc = "menu"
    /\ lower(choice) \notin {"1", "2", "3", "q"}
    /\ out' = <<"Invalid choice. Please choose 1, 2, 3, or q.">>
    /\ UNCHANGED <<board, pc, total_score, file, mark, won>>

\* choice 1, lines 210-211 and 103-104: play_game clears and draws the board
\* and get_player_move waits for a move
StartRound(choice) ==
    /\ pc = "menu"
    /\ lower(choice) = "1"
    /\ total_score < MaxScore /\ total_score > 0 - MaxScore
    /\ board' = initialise_board(board)
    /\ pc' = "player"
    /\ out' = draw_board
    /\ UNCHANGED <<total_score, file, mark, won>>

\* play_game returns `value` to main, lines 211-213 (score = play_game(board);
\* total_score += score), and the menu is printed again
Return(value, lines) ==
    /\ total_score' = total_score + value
    /\ pc' = "menu"
    /\ out' = lines \o <<"Your current score is:">> \o menu_text

\* the player's turn, lines 108-123, on one input
PlayerTurn(inp) ==
    /\ pc = "player"
    /\ LET move == get_player_move(board, inp) IN
       IF ~move.accepted
       THEN /\ out' = <<move.msg>>
            /\ UNCHANGED <<board, pc, total_score, file, mark, won>>
       ELSE LET b == place(board, move.row, move.col, "X")
                r == after_player_move(b)
            IN  /\ board' = b
                /\ mark' = "X"
                /\ won' = check_for_win(b, "X")
                /\ IF r.returned
                   THEN Return(r.value, draw_board \o r.lines)
                   ELSE /\ pc' = "computer"
                        /\ out' = draw_board \o r.lines
                        /\ UNCHANGED total_score
                /\ UNCHANGED file

\* the computer's turn, lines 124-138: random.choice draws any empty cell;
\* with no empty cell the move is skipped and the loop asks the player again
ComputerTurn ==
    /\ pc = "computer"
    /\ LET cells == empty_cells(board) IN
       IF cells = <<>>
       THEN /\ pc' = "player"
            /\ out' = <<>>
            /\ UNCHANGED <<board, total_score, file, mark, won>>
       ELSE \E i \in 1..Len(cells) :
            LET b == place(board, cells[i].row, cells[i].col, "O")
                r == after_computer_move(b)
            IN  /\ board' = b
                /\ mark' = "O"
                /\ won' = check_for_win(b, "O")
                /\ IF r.returned
                   THEN Return(r.value, <<"Computer chose cell:">> \o draw_board \o r.lines)
                   ELSE /\ pc' = "player"
                        /\ out' = <<"Computer chose cell:">> \o draw_board
                        /\ UNCHANGED total_score
                /\ UNCHANGED file

\* choice 2, lines 216-217 and save_score: a loaded value that is no dict has
\* no .get, the AttributeError ends the program
SaveScore(choice, name) ==
    /\ pc = "menu"
    /\ lower(choice) = "2"
    /\ LET leaders == load_scores(file) IN
       IF leaders.kind # "dict"
       THEN /\ pc' = "crashed"
            /\ out' = <<"AttributeError">>
            /\ UNCHANGED file
       ELSE /\ get(leaders.data, name) + total_score <= MaxStored
            /\ get(leaders.data, name) + total_score >= 0 - MaxStored
            /\ file' = FileDict(add_score(leaders.data, name, total_score))
            /\ pc' = "menu"
            /\ out' = <<"Score saved successfully!">> \o menu_text
    /\ UNCHANGED <<board, total_score, mark, won>>

\* choice 3, lines 220-222 and display_leaderboard: a loaded value that is no
\* dict has no .items, the AttributeError ends the program
ShowLeaderboard(choice) ==
    /\ pc = "menu"
    /\ lower(choice) = "3"
    /\ LET leaders == load_scores(file) IN
       IF leaders.kind # "dict"
       THEN /\ pc' = "crashed"
            /\ out' = <<"AttributeError">>
       ELSE /\ pc' = "menu"
            /\ out' = <<"Leaderboard:">> \o menu_text
    /\ UNCHANGED <<board, total_score, file, mark, won>>

\* choice q, lines 225-228
Quit(choice) ==
    /\ pc = "menu"
    /\ lower(choice) = "q"
    /\ pc' = "exit"
    /\ out' = <<"Good bye">>
    /\ UNCHANGED <<board, total_score, file, mark, won>>

Next ==
    \/ \E choice \in MenuInputs : MenuInvalid(choice)
    \/ \E choice \in MenuInputs : StartRound(choice)
    \/ \E inp \in MoveInputs : PlayerTurn(inp)
    \/ ComputerTurn
    \/ \E choice \in MenuInputs : \E name \in Names : SaveScore(choice, name)
    \/ \E choice \in MenuInputs : ShowLeaderboard(choice)
    \/ \E choice \in MenuInputs : Quit(choice)

Spec == Init /\ [][Next]_vars

(***************************************************************************)
(* The session with its scheduling: the computer's move is code that runs  *)
(* without waiting, and the player, asked for a move, eventually types a   *)
(* legal one.  The leaderboard choices (2 and 3) are left out: they run    *)
(* only at the menu and touch nothing a round reads.                       *)
(***************************************************************************)
\* get_player_move returns: a typed number was accepted and marked
AcceptedMove ==
    /\ pc = "player"
    /\ \E inp \in MoveInputs : get_player_move(board, inp).accepted /\ PlayerTurn(inp)

NextPlay ==
    \/ \E choice \in MenuInputs : MenuInvalid(choice)
    \/ \E choice \in MenuInputs : StartRound(choice)
    \/ \E inp \in MoveInputs : PlayerTurn(inp)
    \/ ComputerTurn
    \/ \E choice \in MenuInputs : Quit(choice)

SpecFair ==
    /\ Init
    /\ [][NextPlay]_vars
    /\ WF_vars(ComputerTurn)
    /\ WF_vars(AcceptedMove)

(***************************************************************************)
(* check_for_win as a function of its arguments: every board over the      *)
(* three symbols and both marks.                                           *)
(***************************************************************************)
InitWin ==
    /\ board \in [range3 -> [range3 -> Symbols]]
    /\ pc = "call"
    /\ out = <<>>
    /\ total_score = 0
    /\ file = FileAbsent
    /\ mark = " "
    /\ won = FALSE

CallCheckForWin(m) ==
    /\ pc = "call"
    /\ mark' = m
    /\ won' = check_for_win(board, m)
    /\ pc' = "returned"
    /\ UNCHANGED <<board, out, total_score, file>>

NextWin == \E m \in {"X", "O"} : CallCheckForWin(m)

SpecWin == InitWin /\ [][NextWin]_vars

(***************************************************************************)
(* A session that finds in leaderboard.txt the score an earlier session    *)
(* stored for another player.                                              *)
(***************************************************************************)
InitStore ==
    /\ board = NumberedBoard
    /\ pc = "menu"
    /\ out = <<"Welcome to the Noughts and Crosses Game!">> \o draw_board \o menu_text
    /\ total_score = 0
    /\ file = FileDict([n \in {OtherName} |-> 1])
    /\ mark = " "
    /\ won = FALSE

SpecStore == InitStore /\ [][Next]_vars

(***************************************************************************)
(* A session that finds leaderboard.txt missing or without a mapping in    *)
(* it: not JSON, or JSON that is no object.                                *)
(***************************************************************************)
InitCorrupt ==
    /\ board = NumberedBoard
    /\ pc = "menu"
    /\ out = <<"Welcome to the Noughts and Crosses Game!">> \o draw_board \o menu_text
    /\ total_score = 0
    /\ file \in {FileAbsent, FileInvalid, FileOther}
    /\ mark = " "
    /\ won = FALSE

SpecCorrupt == InitCorrupt /\ [][Next]_vars

(***************************************************************************)
(* Vocabulary of the properties.                                           *)
(***************************************************************************)
\* the nine cells, as <<row, column>>
Cells == range3 \X range3

\* the eight lines: 3 rows, 3 columns, 2 diagonals
Lines ==
    {{<<r, 0>>, <<r, 1>>, <<r, 2>>} : r \in range3}
        \cup {{<<0, c>>, <<1, c>>, <<2, c>>} : c \in range3}
        \cup {{<<0, 0>>, <<1, 1>>, <<2, 2>>}, {<<0, 2>>, <<1, 1>>, <<2, 0>>}}

\* some line holds m in all three cells
HasLine(b, m) == \E l \in Lines : \A c \in l : b[c[1]][c[2]] = m

\* the cells holding a mark, and those holding none
Occupied(b) == {c \in Cells : b[c[1]][c[2]] \in {"X", "O"}}
EmptyOf(b) == {c \in Cells : b[c[1]][c[2]] = " "}

\* the board is a 3x3 grid
Grid3x3(b) == DOMAIN b = range3 /\ \A r \in range3 : DOMAIN b[r] = range3

\* every cell holds one of the three symbols
AllSymbols(b) == \A c \in Cells : b[c[1]][c[2]] \in Symbols

\* all nine cells hold a mark
Full(b) == Occupied(b) = Cells

\* the number of cells holding m
Count(b, m) == Cardinality({c \in Cells : b[c[1]][c[2]] = m})

\* a round is being played
InRound == pc \in {"player", "computer"}

\* the mark of the side whose move is awaited
Mover == IF pc = "player" THEN "X" ELSE "O"

\* this step puts a mark on the board
MoveApplied == InRound /\ board' # board

\* this step is play_game returning to main
RoundEnds == InRound /\ pc' = "menu"

\* the elements of a sequence
Range(seq) == {seq[i] : i \in DOMAIN seq}

\* the cell a typed number names
CellOf(n) == <<(n - 1) \div 3, (n - 1) % 3>>

\* the line play_game prints when the side marking m wins
WinLine(m) == IF m = "X" THEN "You win!" ELSE "Computer wins!"

\* the score delta of a win of the side marking m
WinValue(m) == IF m = "X" THEN 1 ELSE 0 - 1

\* a line is complete or no cell is empty
Terminal(b) == HasLine(b, "X") \/ HasLine(b, "O") \/ Full(b)

\* the number of marks on the board
Marks(b) == Cardinality(Occupied(b))

\* the names leaderboard.txt can hold
AllNames == Names \cup {OtherName}

\* leaderboard.txt holds an entry for n, and the score stored for n (0 if none)
HasEntry(f, n) == f.kind = "dict" /\ n \in DOMAIN f.data
StoredOf(f, n) == IF HasEntry(f, n) THEN f.data[n] ELSE 0

\* this step is save_score running to its end
SaveDone == pc = "menu" /\ "Score saved successfully!" \in Range(out')

\* the typed number is no legal move on b: outside 1..9, or its cell is taken
IllegalMove(b, inp) ==
    /\ inp.num
    /\ \/ inp.val \notin 1..9
       \/ b[CellOf(inp.val)[1]][CellOf(inp.val)[2]] # " "

(***************************************************************************)
(* The properties.                                                         *)
(***************************************************************************)

\* C1, as stated: in every reachable state, from the start of main on, the
\* grid is 3x3 and each cell holds ' ', 'X' or 'O'.
C1_EveryCellIsSymbol == Grid3x3(board) /\ AllSymbols(board)

\* C1, amended: the grid is 3x3 in every reachable state, and each cell holds
\* ' ', 'X' or 'O' in every state from the start of the first round on; from
\* the start of main until the first round is started the board is the
\* numbered board '1'..'9'.
C1_SymbolsOnceRoundStarted ==
    /\ Grid3x3(board)
    /\ \/ AllSymbols(board)
       \/ board = NumberedBoard /\ ~InRound /\ mark = " " /\ total_score = 0

\* a round was played, the score saved, and the session is back at the menu
C1_Witness ==
    /\ pc = "menu"
    /\ AllSymbols(board)
    /\ file.kind = "dict"
    /\ total_score # 0

\* C2: check_for_win(board, mark) is true iff one of the eight lines holds
\* mark in all three cells, for every board over the three symbols and both
\* marks.
C2_WinIffLine == pc = "returned" => (won <=> HasLine(board, mark))

\* the player holds (0,0), (0,1), (0,2) and check_for_win answers true for X
C2_Witness ==
    /\ pc = "returned"
    /\ mark = "X"
    /\ board[0][0] = "X" /\ board[0][1] = "X" /\ board[0][2] = "X"
    /\ won

\* C3: in a round a cell changes only from Empty to X or O; a cell holding
\* a mark keeps it until the round ends.
C3_MarksOnlyOnEmpty ==
    [][InRound =>
        \A c \in Cells :
            board'[c[1]][c[2]] # board[c[1]][c[2]]
                => board[c[1]][c[2]] = " " /\ board'[c[1]][c[2]] \in {"X", "O"}]_vars

\* X was placed at (0,0), the computer has answered, and (0,0) still holds X
C3_Witness ==
    /\ pc = "player"
    /\ board[0][0] = "X"
    /\ \E c \in Cells : board[c[1]][c[2]] = "O"

\* C4: a typed number outside 1..9 or naming a taken cell is rejected: the
\* board and the score are unchanged, the round goes on, and the player is
\* asked again (the turn does not pass to the computer).
C4_IllegalMoveRejected ==
    [][pc = "player" /\ (board' # board \/ pc' # "player" \/ total_score' # total_score)
          => \A inp \in MoveInputs : IllegalMove(board, inp) => ~PlayerTurn(inp)]_vars

\* a taken cell was typed and the player is asked again
C4_Witness ==
    /\ pc = "player"
    /\ out = <<"That cell is already taken. Try again.">>
    /\ Occupied(board) # {}

\* C5: in a round the empty cells computed by choose_computer_move are
\* exactly the cells that hold no mark, and each accepted move makes them
\* one fewer.
C5_LegalMovesComplement ==
    [][InRound =>
        /\ {<<c.row, c.col>> : c \in Range(empty_cells(board))} = Cells \ Occupied(board)
        /\ board' # board
              => Len(empty_cells(board')) = Len(empty_cells(board)) - 1]_vars

\* four moves were accepted and five cells are left to choose from
C5_Witness ==
    /\ pc = "player"
    /\ Len(empty_cells(board)) = 5
    /\ Cardinality(Occupied(board)) = 4

\* C6: a move that completes a line for the mover and fills the last empty
\* cell ends the round as that mover's win (+1 for the player), not as a draw.
C6_WinBeforeDraw ==
    [][MoveApplied /\ Full(board') /\ HasLine(board', Mover)
          => /\ pc' = "menu"
             /\ total_score' = total_score + WinValue(Mover)
             /\ WinLine(Mover) \in Range(out')
             /\ "It's a draw!" \notin Range(out')]_vars

\* the player's fifth mark filled the board and completed a line: a win
C6_Witness ==
    /\ pc = "menu"
    /\ Full(board)
    /\ HasLine(board, "X")
    /\ "You win!" \in Range(out)
    /\ total_score = 1

\* C7: a move that fills the ninth cell with no line complete for either
\* mark makes check_for_draw true and ends the round as a draw, delta 0.
C7_FullBoardNoLineIsDraw ==
    [][MoveApplied /\ Full(board') /\ ~HasLine(board', "X") /\ ~HasLine(board', "O")
          => /\ check_for_draw(board')
             /\ pc' = "menu"
             /\ total_score' = total_score
             /\ "It's a draw!" \in Range(out')]_vars

\* nine marks, no line, and the round was reported as a draw
C7_Witness ==
    /\ pc = "menu"
    /\ Full(board)
    /\ ~HasLine(board, "X") /\ ~HasLine(board, "O")
    /\ "It's a draw!" \in Range(out)
    /\ total_score = 0

\* C8: the value play_game returns is +1 exactly when X has a complete line
\* on the final board, -1 exactly when O has one, 0 exactly when the board is
\* full with no complete line, and never anything else.
C8_ReturnMatchesBoard ==
    [][RoundEnds =>
        LET value == total_score' - total_score IN
        /\ value \in {0 - 1, 0, 1}
        /\ value = 1 <=> HasLine(board', "X")
        /\ value = 0 - 1 <=> HasLine(board', "O")
        /\ value = 0 <=> (Full(board') /\ ~HasLine(board', "X") /\ ~HasLine(board', "O"))]_vars

\* the computer completed a line and the round returned -1
C8_Witness ==
    /\ pc = "menu"
    /\ HasLine(board, "O")
    /\ "Computer wins!" \in Range(out)
    /\ total_score = 0 - 1

\* C9: a move that completes a line or fills the board ends the round in the
\* same step, and a board with a complete line or no empty cell changes only
\* by the clearing that starts the next round.
C9_TerminalAbsorbing ==
    [][/\ MoveApplied /\ Terminal(board') => pc' = "menu"
       /\ Terminal(board)
             => \/ board' = board
                \/ pc = "menu" /\ pc' = "player" /\ EmptyOf(board') = Cells]_vars

\* the player's third mark completed a line: the round is over with four
\* cells still empty
C9_Witness ==
    /\ pc = "menu"
    /\ HasLine(board, "X")
    /\ Cardinality(Occupied(board)) = 5
    /\ Cardinality(EmptyOf(board)) = 4

\* C10: when the first move of a round is requested all nine cells are
\* Empty, whatever the board held before.
C10_RoundStartsEmpty ==
    [][pc = "menu" /\ pc' = "player" => EmptyOf(board') = Cells]_vars

\* a second round is starting: the marks of the round before are gone
C10_Witness ==
    /\ pc = "player"
    /\ EmptyOf(board) = Cells
    /\ mark # " "

\* C11: load_scores answers the empty mapping whenever leaderboard.txt is
\* missing or does not hold a name-to-score mapping, and the flow that
\* called it (saving, showing the leaderboard) goes on: the session never
\* ends in an error.
C11_LoadNeverSurfacesError ==
    LET called ==
            \/ pc = "crashed"
            \/ "Leaderboard:" \in Range(out)
            \/ "Score saved successfully!" \in Range(out)
    IN  called =>
            /\ pc # "crashed"
            /\ file.kind \in {"absent", "invalid", "other"}
                  => load_scores(file) = FileDict(<<>>)

\* C12: with a player who eventually types a legal move whenever asked,
\* every round ends (play_game returns to the menu), and a round never holds
\* more than nine accepted moves: at most five of the player, four of the
\* computer.
C12_RoundTerminates ==
    /\ InRound ~> pc = "menu"
    /\ [](AllSymbols(board) => Count(board, "X") <= 5 /\ Count(board, "O") <= 4)

\* a round that took all nine moves has ended
C12_Witness ==
    /\ pc = "menu"
    /\ Count(board, "X") = 5
    /\ Count(board, "O") = 4
    /\ "Your current score is:" \in Range(out)

\* C13: moves alternate, the player first: in a round the X cells are as
\* many as the O cells when the player is asked and one more when the
\* computer is to move, each move adds one mark of the mover only, and the
\* side that moved is not the side to move next.
C13_MovesAlternate ==
    [][InRound =>
        /\ Count(board, "X") - Count(board, "O") = (IF pc = "player" THEN 0 ELSE 1)
        /\ MoveApplied =>
              /\ Count(board', "X") = Count(board, "X") + (IF pc = "player" THEN 1 ELSE 0)
              /\ Count(board', "O") = Count(board, "O") + (IF pc = "computer" THEN 1 ELSE 0)
              /\ Count(board', "X") - Count(board', "O") \in {0, 1}
              /\ pc' # pc]_vars

\* the player has moved three times, the computer twice, and it is the
\* computer's turn
C13_Witness ==
    /\ pc = "computer"
    /\ Count(board, "X") = 3
    /\ Count(board, "O") = 2

\* C14: whenever the computer is to move a cell is empty, and its turn
\* marks one cell that was empty with O: choose_computer_move never answers
\* (None, None) and the turn is never skipped.
C14_ComputerAlwaysMoves ==
    [][pc = "computer" =>
        /\ empty_cells(board) # <<>>
        /\ \E c \in EmptyOf(board) : board' = place(board, c[1], c[2], "O")
        /\ "Computer chose cell:" \in Range(out')]_vars

\* the computer is to make its fourth move: two cells are left to choose from
C14_Witness ==
    /\ pc = "computer"
    /\ Count(board, "X") = 4
    /\ Len(empty_cells(board)) = 2

\* C16: after a computer move the board holds an even number of marks and
\* is not full, so no draw is reported after a computer move; the move that
\* fills the board is the player's.
C16_DrawOnlyAfterPlayer ==
    [][/\ pc = "computer"
             => /\ ~check_for_draw(board')
                /\ Marks(board') % 2 = 0
                /\ "It's a draw!" \notin Range(out')
       /\ MoveApplied /\ Full(board') => pc = "player" /\ Count(board', "X") = 5
       /\ "It's a draw!" \in Range(out') => pc = "player"]_vars

\* the computer has made its fourth move and one cell is still empty
C16_Witness ==
    /\ pc = "player"
    /\ Marks(board) = 8
    /\ mark = "O"

\* C17: check_for_win(board, 'X') and check_for_win(board, 'O') are never
\* both true.
C17_NoDoubleWin == ~(check_for_win(board, "X") /\ check_for_win(board, "O"))

\* the computer completed a line on its fourth move and the player has none
C17_Witness ==
    /\ pc = "menu"
    /\ check_for_win(board, "O")
    /\ ~check_for_win(board, "X")
    /\ Marks(board) = 8

\* C15: after a save, the value stored for the name is the session's
\* cumulative score, the sum of the deltas of the rounds played (the session
\* starts with no stored entry and saves under one name).
C15_StoredIsSessionTotal ==
    pc = "menu" /\ "Score saved successfully!" \in Range(out)
        => \A n \in Names : HasEntry(file, n) => file.data[n] = total_score

\* C18: save_score sets the saved name's entry to its stored value (0 if
\* none) plus the session total and changes no other entry, nor the session
\* total, nor the board; no other step changes leaderboard.txt.
C18_SaveChangesOneEntry ==
    [][/\ SaveDone =>
             /\ file'.kind = "dict"
             /\ DOMAIN file'.data \subseteq AllNames
             /\ \E n \in Names :
                   /\ HasEntry(file', n)
                   /\ file'.data[n] = StoredOf(file, n) + total_score
                   /\ \A m \in AllNames \ {n} :
                         /\ HasEntry(file', m) <=> HasEntry(file, m)
                         /\ StoredOf(file', m) = StoredOf(file, m)
             /\ total_score' = total_score
             /\ board' = board
       /\ ~SaveDone => file' = file]_vars

\* a score was saved next to the entry of the other player
C18_Witness ==
    /\ pc = "menu"
    /\ "Score saved successfully!" \in Range(out)
    /\ HasEntry(file, OtherName) /\ file.data[OtherName] = 1
    /\ HasEntry(file, "ann") /\ file.data["ann"] = 2
    /\ total_score = 1

====
